---------------------------- MODULE Spec2Model ----------------------------
(***************************************************************************)
(* The spend-authority signature circuit of src/spend_authority_signature.rs *)
(* (VerifySpendAuthoritySignatureDemo::synthesize) as a state machine.      *)
(*                                                                         *)
(* The circuit is synthesized statement by statement against a constraint   *)
(* system that records, per namespace, what was allocated, inputized and    *)
(* enforced (trace), the public input values (inputs) and whether the       *)
(* assignment computed from the witness satisfies every constraint so far   *)
(* (sat).  The curve is a twisted Edwards curve of the Jubjub family        *)
(* (a = -1, d a non-square, cofactor 8) over a small prime field, so that   *)
(* every point can be enumerated; the bit widths are the program's own.     *)
(***************************************************************************)
EXTENDS Integers, Sequences, FiniteSets

(***************************************************************************)
(* Option<T>: None is the empty tuple, Some(v) the one-element tuple.      *)
(***************************************************************************)
None == <<>>
Some(v) == <<v>>
IsSome(o) == o # None
Unwrap(o) == o[1]

\* The value of an allocated bit whose assignment is absent (shape derivation).
NoBit == 2

(***************************************************************************)
(* Curve and field parameters (the JubjubEngine parameter object).         *)
(***************************************************************************)
\* Modulus of the base field Fr.
FieldP == 17
\* Edwards d of  -x^2 + y^2 = 1 + d x^2 y^2.
EdwardsD == 7
\* Order of the prime-order subgroup (modulus of the scalar field Fs).
SubgroupOrder == 3
\* Fr::NUM_BITS, Fr::CAPACITY and Fs::NUM_BITS of the BLS12-381 / Jubjub pair.
FrNumBits == 255
FrCapacity == 254
FsNumBits == 252

FNeg(a) == (FieldP - (a % FieldP)) % FieldP
FInv(a) == CHOOSE b \in 1..(FieldP - 1) : (a * b) % FieldP = 1

OnCurve(x, y) ==
    (FNeg(x * x) + y * y) % FieldP = (1 + EdwardsD * ((x * x) % FieldP) * ((y * y) % FieldP)) % FieldP

Points == {p \in (0..(FieldP - 1)) \X (0..(FieldP - 1)) : OnCurve(p[1], p[2])}

Identity == <<0, 1>>

\* The complete twisted Edwards addition law with a = -1.
EdAdd(p, q) ==
    LET x1 == p[1]
        y1 == p[2]
        x2 == q[1]
        y2 == q[2]
        t  == (EdwardsD * ((x1 * x2) % FieldP) * ((y1 * y2) % FieldP)) % FieldP
        x3 == ((x1 * y2 + y1 * x2) * FInv((1 + t) % FieldP)) % FieldP
        y3 == ((y1 * y2 + x1 * x2) * FInv((1 + FNeg(t)) % FieldP)) % FieldP
    IN  <<x3, y3>>

AddTable == [pq \in Points \X Points |-> EdAdd(pq[1], pq[2])]

\* Native group operations on point values.
PointAdd(p, q) == AddTable[<<p, q>>]
PointDouble(p) == AddTable[<<p, p>>]
PointNegate(p) == <<FNeg(p[1]), p[2]>>

RECURSIVE ScalarMul(_, _)
ScalarMul(n, p) == IF n = 0 THEN Identity ELSE PointAdd(p, ScalarMul(n - 1, p))

\* The points of the cofactor torsion subgroup (order dividing 8).
SmallOrderPoints == {p \in Points : ScalarMul(8, p) = Identity}

\* FixedGenerators::SpendingKeyGenerator: a generator of the prime-order subgroup.
SpendingKeyGenerator == CHOOSE p \in Points : p # Identity /\ ScalarMul(SubgroupOrder, p) = Identity

(***************************************************************************)
(* Bit helpers.                                                            *)
(***************************************************************************)
\* Bit i (from 0) of the small non-negative integer v.
BitAt(v, i) == IF i > 20 THEN 0 ELSE (v \div (2 ^ i)) % 2

\* Vec::resize(n, Boolean::Constant(false)): truncate or pad with constant zeros.
Resize(bits, n) == [i \in 1..n |-> IF i <= Len(bits) THEN bits[i] ELSE 0]

\* Little-endian bits of a field element over width positions (None: unassigned bits).
FieldBitsLe(v, width) ==
    [i \in 1..width |-> IF IsSome(v) THEN BitAt(Unwrap(v), i - 1) ELSE NoBit]

\* Whether every bit of the vector carries an assignment.
AllAssigned(bits) == \A i \in 1..Len(bits) : bits[i] # NoBit

\* <<sum of bits[i] * 2^(i-lo) for i in lo..hi, 2^(hi-lo+1)>>, both modulo m.
RECURSIVE PackRange(_, _, _, _)
PackRange(bits, lo, hi, m) ==
    IF lo = hi
    THEN <<bits[lo] % m, 2 % m>>
    ELSE LET mid == (lo + hi) \div 2
             lft == PackRange(bits, lo, mid, m)
             rgt == PackRange(bits, mid + 1, hi, m)
         IN  <<(lft[1] + lft[2] * rgt[1]) % m, (lft[2] * rgt[2]) % m>>

\* The little-endian value of a bit vector modulo m.
BitsValueMod(bits, m) == IF Len(bits) = 0 THEN 0 ELSE PackRange(bits, 1, Len(bits), m)[1]


(***************************************************************************)
(* The gadget library the circuit is built from (hi_crypto::circuit):      *)
(* the value each gadget assigns, the constraint it adds, and the          *)
(* allocations it makes.                                                   *)
(***************************************************************************)
\* One entry of the constraint system's record: what one gadget call did.
Shape(ns, a, i, e) == [ns |-> ns, alloc |-> a, input |-> i, enforce |-> e]

\* EdwardsPoint::witness: allocates x and y, enforces the curve equation.
EdwardsWitness(p) == p
EdwardsWitnessHolds(p) == IsSome(p) => OnCurve(Unwrap(p)[1], Unwrap(p)[2])
EdwardsWitnessShape(ns) == Shape(ns, 5, 0, 4)

EdwardsAdd(p, q) == IF IsSome(p) /\ IsSome(q) THEN Some(PointAdd(Unwrap(p), Unwrap(q))) ELSE None
EdwardsAddShape(ns) == Shape(ns, 6, 0, 6)

EdwardsDouble(p) == IF IsSome(p) THEN Some(PointDouble(Unwrap(p))) ELSE None
EdwardsDoubleShape(ns) == Shape(ns, 5, 0, 5)

EdwardsNegate(p) == IF IsSome(p) THEN Some(PointNegate(Unwrap(p))) ELSE None
EdwardsNegateShape(ns) == Shape(ns, 0, 0, 0)

\* EdwardsPoint::assert_not_small_order: doubles three times and asserts that the
\* x coordinate of the result is non-zero.
NotSmallOrderHolds(p) ==
    IsSome(p) => Unwrap(EdwardsDouble(EdwardsDouble(EdwardsDouble(p))))[1] # 0
NotSmallOrderShape(ns) == Shape(ns, 16, 0, 16)

\* EdwardsPoint::inputize: x, then y, as public inputs.
InputizeValues(p) == IF IsSome(p) THEN <<Some(Unwrap(p)[1]), Some(Unwrap(p)[2])>> ELSE <<None, None>>
InputizeShape(ns) == Shape(ns, 0, 2, 2)

\* EdwardsPoint::repr: the bits of y (Fr::NUM_BITS of them), then the low bit of x.
EdwardsRepr(p) ==
    IF IsSome(p)
    THEN FieldBitsLe(Some(Unwrap(p)[2]), FrNumBits) \o <<BitAt(Unwrap(p)[1], 0)>>
    ELSE [i \in 1..(FrNumBits + 1) |-> NoBit]
EdwardsReprShape(ns) == Shape(ns, 2 * FrNumBits, 0, 2 * FrNumBits + 2)

\* <<sum of bits[i] * 2^(i-lo) * p for i in lo..hi, 2^(hi-lo+1) * p>>: the
\* double-and-add of EdwardsPoint::mul over the bits lo..hi.
RECURSIVE MulRange(_, _, _, _)
MulRange(p, bits, lo, hi) ==
    IF lo = hi
    THEN <<IF bits[lo] = 1 THEN p ELSE Identity, PointDouble(p)>>
    ELSE LET mid == (lo + hi) \div 2
             lft == MulRange(p, bits, lo, mid)
             rgt == MulRange(lft[2], bits, mid + 1, hi)
         IN  <<PointAdd(lft[1], rgt[1]), rgt[2]>>

\* EdwardsPoint::mul: the scalar is a little-endian bit vector of any length.
EdwardsMul(p, bits) ==
    IF IsSome(p) /\ AllAssigned(bits)
    THEN Some(IF Len(bits) = 0 THEN Identity ELSE MulRange(Unwrap(p), bits, 1, Len(bits))[1])
    ELSE None
EdwardsMulShape(ns, nbits) == Shape(ns, 8 * nbits, 0, 8 * nbits)

\* Bits a shape-only (None) message is expanded to.
ShapeMsgBits == 256

\* u8_vec_into_boolean_vec_le: every byte, least significant bit first.
U8VecIntoBooleanVecLe(m) ==
    IF IsSome(m)
    THEN [i \in 1..(8 * Len(Unwrap(m))) |-> BitAt(Unwrap(m)[((i - 1) \div 8) + 1], (i - 1) % 8)]
    ELSE [i \in 1..ShapeMsgBits |-> NoBit]
U8VecShape(ns, nbits) == Shape(ns, nbits, 0, nbits)

\* field_into_boolean_vec_le: the Fs::NUM_BITS bits of a scalar.
FieldIntoBooleanVecLe(s) == FieldBitsLe(s, FsNumBits)
FieldBitsShape(ns) == Shape(ns, FsNumBits, 0, FsNumBits)

\* pack_into_inputs: one public input per chunk of Fr::CAPACITY bits.
NumChunks(bits) == (Len(bits) + FrCapacity - 1) \div FrCapacity
Chunk(bits, c) ==
    SubSeq(bits, (c - 1) * FrCapacity + 1,
           IF c * FrCapacity < Len(bits) THEN c * FrCapacity ELSE Len(bits))
PackIntoInputs(bits) ==
    [c \in 1..NumChunks(bits) |->
        IF AllAssigned(bits) THEN Some(BitsValueMod(Chunk(bits, c), FieldP)) ELSE None]
PackShape(ns, nbits) == Shape(ns, 0, (nbits + FrCapacity - 1) \div FrCapacity,
                              (nbits + FrCapacity - 1) \div FrCapacity)

\* The weight of a set bit at position i of a hash preimage.
RECURSIVE DigestRange(_, _, _)
DigestRange(bits, lo, hi) ==
    IF lo = hi
    THEN (IF bits[lo] = 1 THEN (31 * lo * lo + 7 * lo + 1) % 65521 ELSE 0)
    ELSE LET mid == (lo + hi) \div 2
         IN  (DigestRange(bits, lo, mid) + DigestRange(bits, mid + 1, hi)) % 65521

\* The hash gadget: a deterministic function of the whole preimage (its length
\* and every bit) and of the personalization, with 512 output bits.
Blake2bDigest(bits, tag) ==
    ((IF tag = "Zcash_RedJubjubH" THEN 40503 ELSE 1)
       + 257 * Len(bits)
       + (IF Len(bits) = 0 THEN 0 ELSE DigestRange(bits, 1, Len(bits)))) % 65521
Blake2b(bits, tag) ==
    IF AllAssigned(bits)
    THEN LET d == Blake2bDigest(bits, tag)
         IN  [j \in 1..512 |-> BitAt((d * (1 + (j - 1) \div 16)) % 65521, (j - 1) % 16)]
    ELSE [j \in 1..512 |-> NoBit]
Blake2bShape(ns, nbits) == Shape(ns, 64 * nbits, 0, 64 * nbits)

(***************************************************************************)
(* The statements of synthesize, as functions of the values they read.     *)
(***************************************************************************)
\* The widths the hash preimage is resized to, and the hash output width.
RBlockEnd == 256
VkBlockEnd == 512
PreimageBits == 768
HStarBits == 512

Personalization == "Zcash_RedJubjubH"

\* input_bits after r's bits were appended and the buffer resized.
InputBitsR(rp) == Resize(<<>> \o EdwardsRepr(rp), RBlockEnd)
\* input_bits after vk's bits were appended and the buffer resized.
InputBitsVk_BeforeR(bits, vkp) == Resize(EdwardsRepr(vkp) \o bits, VkBlockEnd)
InputBitsVk(bits, vkp) == Resize(bits \o EdwardsRepr(vkp), VkBlockEnd)
\* input_bits after the message bits were appended and the buffer resized.
InputBitsMsg_WithoutMessage(bits, m) == Resize(bits, PreimageBits)
InputBitsMsg(bits, m) == Resize(bits \o U8VecIntoBooleanVecLe(m), PreimageBits)
\* h_star: the personalized hash of the buffer.
HStarOf(bits) == Blake2b(bits, Personalization)
\* The assertion on the hash output's length.
HStarLenOk(h) == Len(h) = HStarBits
\* The constraints of the three point witnesses.
VkConstraint(p) == EdwardsWitnessHolds(p)
RConstraint(p) == EdwardsWitnessHolds(p)
GeneratorConstraint_FixedGenerator(g) ==
    EdwardsWitnessHolds(g) /\ (IsSome(g) => Unwrap(g) = SpendingKeyGenerator)
GeneratorConstraint(g) == EdwardsWitnessHolds(g)
\* vk.assert_not_small_order.
VkNotSmallOrder_Omitted(vkp) == TRUE
VkNotSmallOrder(vkp) == NotSmallOrderHolds(vkp)
\* The public inputs r.inputize and pack_into_inputs(s_bit) allocate.
RInputs(rp) == InputizeValues(rp)
SInputs_NotInputized(sb) == <<>>
SInputs(sb) == PackIntoInputs(sb)
\* generator.negate.
NegatedGenerator_NotNegated(g) == g
NegatedGenerator(g) == EdwardsNegate(g)
\* vk.mul(h_star).
HstarTimesVk(vkp, h) == EdwardsMul(vkp, h)
\* generator.mul(s_bit), generator being the negated generator.
MinusSTimesGenerator(g, sb) == EdwardsMul(g, sb)
\* sig.add(tmp).
SignatureAdd1(sg, tp) == EdwardsAdd(sg, tp)
\* sig.add(r).
SignatureAdd2_WithoutR(sg, rp) == sg
SignatureAdd2(sg, rp) == EdwardsAdd(sg, rp)
\* The three doublings.
SigDouble(p) == EdwardsDouble(p)
SigTimes4(p) == EdwardsDouble(p)
SigTimes8_NotDoubled(p) == p
SigTimes8(p) == EdwardsDouble(p)
\* enforce(zero.x * 1 = 0) and enforce(zero.y * 1 = 1).
ResultToZeroPointX(z) == IsSome(z) => (Unwrap(z)[1] * 1) % FieldP = 0
ResultToZeroPointY(z) == IsSome(z) => (Unwrap(z)[2] * 1) % FieldP = 1

\* The point the final constraints are put on, from the allocated vk and r, the
\* hash bits, the scalar bits and the generator witness.
ZeroFrom(vkp, h, sb, g, rp) ==
    LET sg0 == HstarTimesVk(vkp, h)
        tp  == MinusSTimesGenerator(NegatedGenerator(EdwardsWitness(g)), sb)
        sg2 == SignatureAdd2(SignatureAdd1(sg0, tp), rp)
    IN  SigTimes8(SigTimes4(SigDouble(sg2)))

\* The hash preimage and the final point, for a witness.
InputBitsOf(pk, rp, m) == InputBitsMsg(InputBitsVk(InputBitsR(rp), pk), m)
ZeroOf(pk, rp, s, g, m) ==
    ZeroFrom(pk, HStarOf(InputBitsOf(pk, rp, m)), FieldIntoBooleanVecLe(s), g, rp)

\* Whether the assignment computed from the witness points, the scalar bits and
\* the hash bits satisfies every constraint synthesize emits.
SatisfiedFrom(pk, rp, sb, g, h) ==
    /\ VkConstraint(pk)
    /\ VkNotSmallOrder(pk)
    /\ RConstraint(rp)
    /\ GeneratorConstraint(g)
    /\ LET z == ZeroFrom(pk, h, sb, g, rp)
       IN  ResultToZeroPointX(z) /\ ResultToZeroPointY(z)

\* The same, for a witness.
Satisfied(pk, rp, s, g, m) ==
    SatisfiedFrom(pk, rp, FieldIntoBooleanVecLe(s), g, HStarOf(InputBitsOf(pk, rp, m)))

\* The record the constraint system holds after synthesize, for a witness.
TraceOf(pk, rp, s, g, m) ==
    LET bits == InputBitsOf(pk, rp, m)
        h    == HStarOf(bits)
        sb   == FieldIntoBooleanVecLe(s)
    IN  <<EdwardsWitnessShape("vk"),
          NotSmallOrderShape("vk not small order"),
          EdwardsWitnessShape("r"),
          InputizeShape("inputize signature.r"),
          EdwardsReprShape("r unpack to bits"),
          EdwardsReprShape("vk unpack to bits"),
          U8VecShape("message unpack into bits", Len(U8VecIntoBooleanVecLe(m))),
          Blake2bShape("blake2b hash", Len(bits)),
          FieldBitsShape("scalar into bits"),
          PackShape("signature.s inputize", Len(sb)),
          EdwardsWitnessShape("generator witness"),
          EdwardsNegateShape("generator negate"),
          EdwardsMulShape("hstar * vk", Len(h)),
          EdwardsMulShape("-s * generator", Len(sb)),
          EdwardsAddShape("signature add1"),
          EdwardsAddShape("signature add2"),
          EdwardsDoubleShape("sig double"),
          EdwardsDoubleShape("sig times 4"),
          EdwardsDoubleShape("sig times 8"),
          Shape("result to zero point x", 0, 0, 1),
          Shape("result to zero point y", 0, 0, 1)>>

(***************************************************************************)
(* Bounds of the model.                                                    *)
(***************************************************************************)
\* The longest message, in bytes.
MaxMsgLen == 33
MsgOfLen(n) == [i \in 1..n |-> (37 * i + 11) % 256]
MsgLens == {1, PreimageBits \div 8 - VkBlockEnd \div 8, MaxMsgLen}
Msgs == {MsgOfLen(n) : n \in MsgLens}

\* How many multiples of an order-8 point the witness points are shifted by.
MaxTorsion == 3

\* A point of order exactly 8, and the torsion points the witnesses use.
TorsionGenerator == CHOOSE p \in Points : ScalarMul(8, p) = Identity /\ ScalarMul(4, p) # Identity
TorsionChoices == {ScalarMul(j, TorsionGenerator) : j \in 0..MaxTorsion}

\* The witness points: a multiple of the spending key generator plus a torsion point.
PointChoices ==
    {PointAdd(ScalarMul(k, SpendingKeyGenerator), tp) : k \in 0..(SubgroupOrder - 1), tp \in TorsionChoices}

\* A second generator value, outside the prime-order subgroup.
OtherGenerator == PointAdd(SpendingKeyGenerator, TorsionGenerator)
GenChoices == {SpendingKeyGenerator, OtherGenerator}

(***************************************************************************)
(* The state.                                                              *)
(***************************************************************************)
VARIABLES
    msg_hash, sig_r, sig_s, public_key, generator,  \* the circuit's fields
    pc, result, failed,                             \* position, outcome, failing step
    trace, inputs, sat,                             \* the constraint system
    vk, r, input_bits, h_star, s_bit, gen, sig, tmp, zero  \* synthesize's locals

witness == <<msg_hash, sig_r, sig_s, public_key, generator>>
control == <<pc, result, failed>>
cs      == <<trace, inputs, sat>>
locals  == <<vk, r, input_bits, h_star, s_bit, gen, sig, tmp, zero>>
vars    == <<witness, control, cs, locals>>

\* verify_proof: a proof made from the assignment verifies against an image
\* exactly when the assignment is satisfying and the image is its public inputs.
VerifyProof(image) == sat /\ image = inputs

\* BOUND: every witness present.  SHAPE: every witness None.
Bound == IsSome(public_key)

Start ==
    /\ pc = "vk" /\ result = "running" /\ failed = "none"
    /\ trace = <<>> /\ inputs = <<>> /\ sat = TRUE
    /\ vk = None /\ r = None /\ input_bits = <<>> /\ h_star = <<>> /\ s_bit = <<>>
    /\ gen = None /\ sig = None /\ tmp = None /\ zero = None

ShapeWitness ==
    /\ msg_hash = None /\ sig_r = None /\ sig_s = None
    /\ public_key = None /\ generator = None

Init ==
    /\ \/ ShapeWitness
       \/ /\ msg_hash \in {Some(m) : m \in Msgs}
          /\ sig_r \in {Some(p) : p \in PointChoices}
          /\ sig_s \in {Some(s) : s \in 0..(SubgroupOrder - 1)}
          /\ public_key \in {Some(p) : p \in PointChoices}
          /\ generator \in {Some(p) : p \in GenChoices}
    /\ Start

\* A statement: from label at to label nxt, recording what the gadget did.
Goto(at, nxt, shape) ==
    /\ pc = at
    /\ pc' = nxt
    /\ trace' = Append(trace, shape)
    /\ UNCHANGED <<witness, result, failed>>

VkWitness ==
    /\ Goto("vk", "vk not small order", EdwardsWitnessShape("vk"))
    /\ vk' = EdwardsWitness(public_key)
    /\ sat' = (sat /\ VkConstraint(public_key))
    /\ UNCHANGED <<inputs, r, input_bits, h_star, s_bit, gen, sig, tmp, zero>>

VkAssertNotSmallOrder_OnlyWhenBound ==
    /\ pc = "vk not small order"
    /\ pc' = "r"
    /\ trace' = IF Bound THEN Append(trace, NotSmallOrderShape("vk not small order")) ELSE trace
    /\ sat' = (sat /\ VkNotSmallOrder(vk))
    /\ UNCHANGED <<witness, result, failed, inputs, locals>>

VkAssertNotSmallOrder ==
    /\ Goto("vk not small order", "r", NotSmallOrderShape("vk not small order"))
    /\ sat' = (sat /\ VkNotSmallOrder(vk))
    /\ UNCHANGED <<inputs, locals>>

RWitness ==
    /\ Goto("r", "inputize signature.r", EdwardsWitnessShape("r"))
    /\ r' = EdwardsWitness(sig_r)
    /\ sat' = (sat /\ RConstraint(sig_r))
    /\ UNCHANGED <<inputs, vk, input_bits, h_star, s_bit, gen, sig, tmp, zero>>

RInputize ==
    /\ Goto("inputize signature.r", "r unpack to bits", InputizeShape("inputize signature.r"))
    /\ inputs' = inputs \o RInputs(r)
    /\ UNCHANGED <<sat, locals>>

RUnpackToBits ==
    /\ Goto("r unpack to bits", "vk unpack to bits", EdwardsReprShape("r unpack to bits"))
    /\ input_bits' = InputBitsR(r)
    /\ UNCHANGED <<inputs, sat, vk, r, h_star, s_bit, gen, sig, tmp, zero>>

VkUnpackToBits ==
    /\ Goto("vk unpack to bits", "message unpack into bits", EdwardsReprShape("vk unpack to bits"))
    /\ input_bits' = InputBitsVk(input_bits, vk)
    /\ UNCHANGED <<inputs, sat, vk, r, h_star, s_bit, gen, sig, tmp, zero>>

MessageUnpackIntoBits ==
    /\ Goto("message unpack into bits", "blake2b hash",
            U8VecShape("message unpack into bits", Len(U8VecIntoBooleanVecLe(msg_hash))))
    /\ input_bits' = InputBitsMsg(input_bits, msg_hash)
    /\ UNCHANGED <<inputs, sat, vk, r, h_star, s_bit, gen, sig, tmp, zero>>

Blake2bHash ==
    /\ Goto("blake2b hash", "scalar into bits", Blake2bShape("blake2b hash", Len(input_bits)))
    /\ HStarLenOk(HStarOf(input_bits))
    /\ h_star' = HStarOf(input_bits)
    /\ UNCHANGED <<inputs, sat, vk, r, input_bits, s_bit, gen, sig, tmp, zero>>

ScalarIntoBits ==
    /\ Goto("scalar into bits", "signature.s inputize", FieldBitsShape("scalar into bits"))
    /\ s_bit' = FieldIntoBooleanVecLe(sig_s)
    /\ UNCHANGED <<inputs, sat, vk, r, input_bits, h_star, gen, sig, tmp, zero>>

SInputize ==
    /\ Goto("signature.s inputize", "generator witness", PackShape("signature.s inputize", Len(s_bit)))
    /\ inputs' = inputs \o SInputs(s_bit)
    /\ UNCHANGED <<sat, locals>>

GeneratorWitness ==
    /\ Goto("generator witness", "generator negate", EdwardsWitnessShape("generator witness"))
    /\ gen' = EdwardsWitness(generator)
    /\ sat' = (sat /\ GeneratorConstraint(generator))
    /\ UNCHANGED <<inputs, vk, r, input_bits, h_star, s_bit, sig, tmp, zero>>

GeneratorNegate ==
    /\ Goto("generator negate", "hstar * vk", EdwardsNegateShape("generator negate"))
    /\ gen' = NegatedGenerator(gen)
    /\ UNCHANGED <<inputs, sat, vk, r, input_bits, h_star, s_bit, sig, tmp, zero>>

HstarMulVk ==
    /\ Goto("hstar * vk", "-s * generator", EdwardsMulShape("hstar * vk", Len(h_star)))
    /\ sig' = HstarTimesVk(vk, h_star)
    /\ UNCHANGED <<inputs, sat, vk, r, input_bits, h_star, s_bit, gen, tmp, zero>>

MinusSMulGenerator ==
    /\ Goto("-s * generator", "signature add1", EdwardsMulShape("-s * generator", Len(s_bit)))
    /\ tmp' = MinusSTimesGenerator(gen, s_bit)
    /\ UNCHANGED <<inputs, sat, vk, r, input_bits, h_star, s_bit, gen, sig, zero>>

SigAdd1 ==
    /\ Goto("signature add1", "signature add2", EdwardsAddShape("signature add1"))
    /\ sig' = SignatureAdd1(sig, tmp)
    /\ UNCHANGED <<inputs, sat, vk, r, input_bits, h_star, s_bit, gen, tmp, zero>>

SigAdd2 ==
    /\ Goto("signature add2", "sig double", EdwardsAddShape("signature add2"))
    /\ sig' = SignatureAdd2(sig, r)
    /\ UNCHANGED <<inputs, sat, vk, r, input_bits, h_star, s_bit, gen, tmp, zero>>

SigDoubleStep ==
    /\ Goto("sig double", "sig times 4", EdwardsDoubleShape("sig double"))
    /\ zero' = SigDouble(sig)
    /\ UNCHANGED <<inputs, sat, vk, r, input_bits, h_star, s_bit, gen, sig, tmp>>

SigTimes4Step ==
    /\ Goto("sig times 4", "sig times 8", EdwardsDoubleShape("sig times 4"))
    /\ zero' = SigTimes4(zero)
    /\ UNCHANGED <<inputs, sat, vk, r, input_bits, h_star, s_bit, gen, sig, tmp>>

SigTimes8Step ==
    /\ Goto("sig times 8", "result to zero point x", EdwardsDoubleShape("sig times 8"))
    /\ zero' = SigTimes8(zero)
    /\ UNCHANGED <<inputs, sat, vk, r, input_bits, h_star, s_bit, gen, sig, tmp>>

EnforceX ==
    /\ Goto("result to zero point x", "result to zero point y", Shape("result to zero point x", 0, 0, 1))
    /\ sat' = (sat /\ ResultToZeroPointX(zero))
    /\ UNCHANGED <<inputs, locals>>

EnforceY ==
    /\ Goto("result to zero point y", "return", Shape("result to zero point y", 0, 0, 1))
    /\ sat' = (sat /\ ResultToZeroPointY(zero))
    /\ UNCHANGED <<inputs, locals>>

ReturnOk ==
    /\ pc = "return"
    /\ pc' = "done"
    /\ result' = "Ok"
    /\ UNCHANGED <<witness, failed, cs, locals>>

Next ==
    \/ VkWitness \/ VkAssertNotSmallOrder \/ RWitness \/ RInputize
    \/ RUnpackToBits \/ VkUnpackToBits \/ MessageUnpackIntoBits \/ Blake2bHash
    \/ ScalarIntoBits \/ SInputize \/ GeneratorWitness \/ GeneratorNegate
    \/ HstarMulVk \/ MinusSMulGenerator \/ SigAdd1 \/ SigAdd2
    \/ SigDoubleStep \/ SigTimes4Step \/ SigTimes8Step
    \/ EnforceX \/ EnforceY \/ ReturnOk

Spec == Init /\ [][Next]_vars

(***************************************************************************)
(* Failing sub-gadgets.  Every call ending in `?` returns the gadget's      *)
(* error; the hash gadget's result is unwrapped and its length asserted.   *)
(***************************************************************************)
\* The statements whose gadget call is followed by `?`.
FallibleSteps ==
    {"vk", "vk not small order", "r", "inputize signature.r", "r unpack to bits",
     "vk unpack to bits", "message unpack into bits", "scalar into bits",
     "signature.s inputize", "generator witness", "generator negate", "hstar * vk",
     "-s * generator", "signature add1", "signature add2", "sig double",
     "sig times 4", "sig times 8"}

\* How synthesize ends on an error of a `?` call, of the unwrapped hash gadget,
\* and on a failed length assertion.
OnSubGadgetError == "Err"
OnHashGadgetError == "Panic"
OnLengthMismatch == "Panic"

SubGadgetFails ==
    /\ pc \in FallibleSteps
    /\ pc' = "done"
    /\ result' = OnSubGadgetError
    /\ failed' = pc
    /\ UNCHANGED <<witness, cs, locals>>

HashGadgetFails ==
    /\ pc = "blake2b hash"
    /\ pc' = "done"
    /\ result' = OnHashGadgetError
    /\ failed' = pc
    /\ UNCHANGED <<witness, cs, locals>>

\* A hash gadget answering with another number of bits than 512.
HashLengthMismatch ==
    /\ pc = "blake2b hash"
    /\ \E n \in {HStarBits - 1, HStarBits + 1} :
          /\ ~HStarLenOk(Resize(HStarOf(input_bits), n))
          /\ h_star' = Resize(HStarOf(input_bits), n)
    /\ pc' = "done"
    /\ result' = OnLengthMismatch
    /\ failed' = "assert_eq"
    /\ trace' = Append(trace, Blake2bShape("blake2b hash", Len(input_bits)))
    /\ UNCHANGED <<witness, inputs, sat, vk, r, input_bits, s_bit, gen, sig, tmp, zero>>

\* The witnesses the failing runs are started with.
InitFault ==
    /\ \/ ShapeWitness
       \/ /\ msg_hash = Some(MsgOfLen(RBlockEnd \div 8))
          /\ sig_r \in {Some(Identity), Some(SpendingKeyGenerator)}
          /\ sig_s \in {Some(0), Some(1)}
          /\ public_key \in {Some(Identity), Some(SpendingKeyGenerator)}
          /\ generator = Some(SpendingKeyGenerator)
    /\ Start

NextFault == Next \/ SubGadgetFails \/ HashGadgetFails \/ HashLengthMismatch

SpecFault == InitFault /\ [][NextFault]_vars

\* The constraint system agrees with the function of the witness.
SatIsSatisfied ==
    (pc = "done" /\ Bound /\ result = "Ok")
        => (sat <=> Satisfied(public_key, sig_r, sig_s, generator, msg_hash))

(***************************************************************************)
(* The claims.                                                             *)
(***************************************************************************)
Done == pc = "done"
PkPoint == Unwrap(public_key)
RPoint == Unwrap(sig_r)
GPoint == Unwrap(generator)
SValue == Unwrap(sig_s)
Msg == Unwrap(msg_hash)

\* The order of the curve group: cofactor 8 times the subgroup order.
GroupOrder == 8 * SubgroupOrder

\* The challenge as the protocol defines it: the personalized hash of r's
\* serialization, vk's serialization and the message, each zero-padded to
\* 256 bits.
NativeChallenge(rp, pk, m) ==
    Blake2b(Resize(EdwardsRepr(Some(rp)), 256) \o Resize(EdwardsRepr(Some(pk)), 256)
              \o Resize(U8VecIntoBooleanVecLe(Some(m)), 256),
            "Zcash_RedJubjubH")

\* h * vk - s * G + r, computed in the group from the hash bits h.
NativeCombined(h, pk, s, g, rp) ==
    PointAdd(PointAdd(ScalarMul(BitsValueMod(h, GroupOrder), pk),
                      PointNegate(ScalarMul(s, g))),
             rp)

\* The state's witness is the signature of private key sk with nonce k.
HonestWitness(sk, k) ==
    /\ generator = Some(SpendingKeyGenerator)
    /\ public_key = Some(ScalarMul(sk, SpendingKeyGenerator))
    /\ sig_r = Some(ScalarMul(k, SpendingKeyGenerator))
    /\ 8 * Len(Msg) <= 256
    /\ SValue = (k + BitsValueMod(NativeChallenge(RPoint, PkPoint, Msg), SubgroupOrder) * sk)
                   % SubgroupOrder

\* C1 (validity): for every private key sk with vk = sk*G not of small order,
\* every nonce k and every message of at most 32 bytes, the witness r = k*G,
\* s = k + h*sk, public_key = vk, generator = G satisfies every constraint
\* synthesize emits, with public inputs (r.x, r.y, s).
C1_Validity ==
    (Done /\ Bound) =>
        \A sk \in 1..(SubgroupOrder - 1), k \in 0..(SubgroupOrder - 1) :
            HonestWitness(sk, k) =>
                /\ result = "Ok"
                /\ sat
                /\ inputs = <<Some(RPoint[1]), Some(RPoint[2]), Some(SValue)>>

C1_Witness ==
    /\ Done /\ Bound /\ sat
    /\ 8 * Len(Msg) < 256
    /\ \E sk \in 1..(SubgroupOrder - 1), k \in 1..(SubgroupOrder - 1) : HonestWitness(sk, k)

\* C2 (equation invariant): whenever every emitted constraint is satisfied, the
\* point obtained by doubling h*vk + s*(-G) + r three times is the identity
\* (x = 0 and y = 1); a final point with another coordinate is not satisfying.
C2_EquationInvariant ==
    (Done /\ Bound) =>
        /\ sat => /\ zero = Some(Identity)
                  /\ ScalarMul(8, NativeCombined(h_star, PkPoint, SValue, GPoint, RPoint)) = Identity
        /\ (Unwrap(zero)[1] # 0 \/ Unwrap(zero)[2] # 1) => ~sat

C2_Witness ==
    /\ Done /\ Bound /\ sat
    /\ zero = Some(Identity)
    /\ RPoint \notin SmallOrderPoints

TamperDeltas == {1}

\* The message with byte i replaced by another value.
TamperedMsg(m, i, d) == [m EXCEPT ![i] = (m[i] + d) % 256]

\* The constraint set rejects the state's witness with byte i of the message
\* replaced, provided the hash tells the two preimages apart modulo the
\* subgroup order.
TamperRejected(i, d) ==
    LET bits2 == InputBitsOf(public_key, sig_r, Some(TamperedMsg(Msg, i, d)))
        h2    == HStarOf(bits2)
    IN  (bits2 # input_bits
            => BitsValueMod(h2, SubgroupOrder) # BitsValueMod(h_star, SubgroupOrder))
        => ~SatisfiedFrom(public_key, sig_r, s_bit, generator, h2)

\* C4 as stated (tamper rejection for a message of arbitrary length): replacing
\* any one byte of the message of a satisfying witness makes the constraint set
\* unsatisfied.
C4_TamperAnyLength ==
    (Done /\ Bound /\ sat) =>
        \A i \in 1..Len(Msg), d \in TamperDeltas : TamperRejected(i, d)

\* C4 as amended: for a message of at most 32 bytes, replacing any one byte of
\* the message of a satisfying witness makes the constraint set unsatisfied.
C4_TamperUpTo32Bytes ==
    (Done /\ Bound /\ sat /\ 8 * Len(Msg) <= 256) =>
        \A i \in 1..Len(Msg), d \in TamperDeltas : TamperRejected(i, d)

C4_Witness ==
    /\ Done /\ Bound /\ sat
    /\ 8 * Len(Msg) = 256
    /\ LET bits2 == InputBitsOf(public_key, sig_r, Some(TamperedMsg(Msg, Len(Msg), 1)))
           h2    == HStarOf(bits2)
       IN  /\ bits2 # input_bits
           /\ BitsValueMod(h2, SubgroupOrder) # BitsValueMod(h_star, SubgroupOrder)
           /\ ~SatisfiedFrom(public_key, sig_r, s_bit, generator, h2)

\* The public inputs each namespace allocates.
InputsOfNamespace(ns) ==
    IF ns = "inputize signature.r" THEN 2 ELSE IF ns = "signature.s inputize" THEN 1 ELSE 0

\* C5 (public input vector): after synthesize the public inputs are exactly
\* (r.x, r.y, s packed into one field element), in this order, of the r and s
\* that enter the hash and the equation; no other witness is a public input,
\* and the witness does not verify against the image with s + 1.
C5_PublicInputs ==
    Done =>
        /\ Len(inputs) = 3
        /\ \A i \in 1..Len(trace) : trace[i].input = InputsOfNamespace(trace[i].ns)
        /\ Bound =>
            /\ inputs = <<Some(RPoint[1]), Some(RPoint[2]), Some(SValue % FieldP)>>
            /\ r = sig_r
            /\ SubSeq(input_bits, 1, 256) = EdwardsRepr(sig_r)
            /\ BitsValueMod(s_bit, FieldP) = SValue % FieldP
            /\ tmp = Some(PointNegate(ScalarMul(SValue, GPoint)))
            /\ ~VerifyProof(<<Some(RPoint[1]), Some(RPoint[2]), Some((SValue + 1) % FieldP)>>)

C5_Witness ==
    /\ Done /\ Bound /\ sat
    /\ VerifyProof(<<Some(RPoint[1]), Some(RPoint[2]), Some(SValue % FieldP)>>)
    /\ ~VerifyProof(<<Some(RPoint[1]), Some(RPoint[2]), Some((SValue + 1) % FieldP)>>)

\* The record of the shape derivation.
ShapeTrace == TraceOf(None, None, None, None, None)

\* C6 as stated (shape independence): a run with any concrete witness, of any
\* message length, makes the same allocations, public inputs and constraints,
\* in the same order and number, as the run with every witness None.
C6_ShapeAnyLength == Done => trace = ShapeTrace

\* C6 as amended: a run with a concrete witness whose message has exactly 32
\* bytes makes the same allocations, public inputs and constraints, in the same
\* order and number, as the run with every witness None.
C6_Shape32Bytes == (Done /\ (Bound => 8 * Len(Msg) = 256)) => trace = ShapeTrace

C6_Witness ==
    /\ Done /\ Bound /\ sat
    /\ 8 * Len(Msg) = 256
    /\ trace = ShapeTrace

\* C7 (structural failures): synthesize ends in success or in a returned
\* failure; a failing sub-gadget step, the hash gadget included, and a hash
\* output of another length than 512 bits end the call with a returned failure,
\* and nothing is done after the failing step.
C7_ReturnedFailure ==
    /\ result \in {"running", "Ok", "Err"}
    /\ failed # "none" => (Done /\ result = "Err")

\* Bit i (from 1) of a point's serialization and of a message.
NativePointBit(p, i) == IF i <= 255 THEN BitAt(p[2], i - 1) ELSE p[1] % 2
NativeMsgBit(m, i) ==
    IF i <= 8 * Len(m) THEN (m[((i - 1) \div 8) + 1] \div (2 ^ ((i - 1) % 8))) % 2 ELSE 0

BufferBlocks ==
    /\ Len(input_bits) = 768
    /\ \A i \in 1..256 :
          /\ input_bits[i] = NativePointBit(RPoint, i)
          /\ input_bits[256 + i] = NativePointBit(PkPoint, i)
          /\ input_bits[512 + i] = NativeMsgBit(Msg, i)

\* C8 as stated (hash preimage): the buffer passed to the hash gadget has 768
\* bits: r's serialization, vk's serialization and all the message bits, each
\* block zero-padded; no bit of the message is dropped.
C8_PreimageAllBits ==
    (pc = "blake2b hash" /\ Bound) => (BufferBlocks /\ 8 * Len(Msg) <= 256)

\* C8 as amended: the buffer passed to the hash gadget has 768 bits: r's
\* serialization, vk's serialization and the first 256 message bits, each
\* block zero-padded; the message bits after the first 256 are dropped.
C8_PreimageFirst256Bits == (pc = "blake2b hash" /\ Bound) => BufferBlocks

C8_Witness ==
    /\ pc = "blake2b hash" /\ Bound
    /\ 8 * Len(Msg) > 256
    /\ BufferBlocks
    /\ \E i \in 1..256 : input_bits[512 + i] = 1

\* C9 (cofactor tolerance, r asymmetry): the only small-order assertion is the
\* one on vk, and whenever vk is not of small order and h*vk + s*(-G) + r is any
\* point of order dividing 8, every emitted constraint is satisfied.
C9_CofactorTolerance ==
    (Done /\ Bound) =>
        /\ \A i \in 1..Len(trace) :
              trace[i] = NotSmallOrderShape(trace[i].ns) => trace[i].ns = "vk not small order"
        /\ (/\ PkPoint \notin SmallOrderPoints
            /\ NativeCombined(h_star, PkPoint, SValue, GPoint, RPoint) \in SmallOrderPoints)
              => sat

C9_Witness ==
    /\ Done /\ Bound /\ sat
    /\ RPoint \in SmallOrderPoints /\ RPoint # Identity
    /\ ScalarMul(4, NativeCombined(h_star, PkPoint, SValue, GPoint, RPoint)) # Identity

\* C10 (unbound generator): the generator is constrained only to be a curve
\* point, so for every public input (r, s) with s non-zero modulo the subgroup
\* order, every vk not of small order and every message there is a generator
\* value for which every emitted constraint is satisfied.
C10_UnboundGenerator ==
    (Done /\ Bound /\ SValue % SubgroupOrder # 0 /\ PkPoint \notin SmallOrderPoints) =>
        /\ \E g \in Points : SatisfiedFrom(public_key, sig_r, s_bit, Some(g), h_star)
        /\ \A i \in 1..Len(trace) :
              trace[i].ns \in {"generator witness", "generator negate"}
                  => (trace[i].input = 0 /\ trace[i] # NotSmallOrderShape(trace[i].ns))

C10_Witness ==
    /\ Done /\ Bound /\ sat
    /\ SValue % SubgroupOrder # 0
    /\ \A k \in 0..(GroupOrder - 1) : ScalarMul(k, GPoint) # PkPoint

=============================================================================
